---------------------------- MODULE Spec2Model ----------------------------
(***************************************************************************)
(* A model of use-param-lustig: the bracket-notation query-string codec    *)
(* (QueryStringConverter), the marker lookup (DataCompressor), the         *)
(* parameter pipeline (QueryParamCore) and the useQueryParams hook.        *)
(*                                                                         *)
(* Strings are sequences of one-character strings.  A JavaScript value is  *)
(* a record [t, s, n, b, p]: t is "undef", "null", "bool", "num", "str",   *)
(* "obj" or "arr"; s is a string's text, n a number, b a boolean, and p    *)
(* the list of the own properties <<key, value>> of an object or an array, *)
(* in JavaScript's property order.  A call that may throw returns          *)
(* [threw, val].                                                           *)
(***************************************************************************)
EXTENDS Integers, Sequences, FiniteSets, TLC

VARIABLES
    mode,       \* which operation family this behaviour exercises
    cfg,        \* the options and validator given at construction
    input,      \* the argument of the pure operation under check
    output,     \* what the last operation returned (or that it threw)
    pc,         \* position of the pure-operation run, or of the hook
    params,     \* the hook's params state (useState)
    search,     \* window.location.search
    published,  \* every updateBrowserUrl call so far
    last        \* what the last hook step did

vars == <<mode, cfg, input, output, pc, params, search, published, last>>

-----------------------------------------------------------------------------
(* Characters and strings *)

Digits == <<"0", "1", "2", "3", "4", "5", "6", "7", "8", "9">>

HexUpper == <<"0", "1", "2", "3", "4", "5", "6", "7", "8", "9",
              "A", "B", "C", "D", "E", "F">>

HexLower == <<"0", "1", "2", "3", "4", "5", "6", "7", "8", "9",
              "a", "b", "c", "d", "e", "f">>

\* The printable ASCII characters, code 32 first ("<dq>" is the double quote,
\* "<bs>" the backslash, "<bt>" the backtick).
Printable ==
    <<" ", "!", "<dq>", "#", "$", "%", "&", "'", "(", ")", "*", "+", ",", "-", ".", "/",
      "0", "1", "2", "3", "4", "5", "6", "7", "8", "9", ":", ";", "<", "=", ">", "?",
      "@", "A", "B", "C", "D", "E", "F", "G", "H", "I", "J", "K", "L", "M", "N", "O",
      "P", "Q", "R", "S", "T", "U", "V", "W", "X", "Y", "Z", "[", "<bs>", "]", "^", "_",
      "<bt>", "a", "b", "c", "d", "e", "f", "g", "h", "i", "j", "k", "l", "m", "n", "o",
      "p", "q", "r", "s", "t", "u", "v", "w", "x", "y", "z", "{", "|", "}", "~">>

\* A character outside printable ASCII (a control or a non-ASCII character).
OtherChar == "<?>"

IndexOf(seq, c) ==
    IF \E i \in 1..Len(seq) : seq[i] = c
    THEN CHOOSE i \in 1..Len(seq) : seq[i] = c /\ \A j \in 1..(i - 1) : seq[j] # c
    ELSE 0

IsDigit(c) == IndexOf(Digits, c) > 0

IsHex(c) == IndexOf(HexUpper, c) > 0 \/ IndexOf(HexLower, c) > 0

HexVal(c) ==
    IF IndexOf(HexUpper, c) > 0 THEN IndexOf(HexUpper, c) - 1
    ELSE IndexOf(HexLower, c) - 1

CharCode(c) == IF IndexOf(Printable, c) > 0 THEN IndexOf(Printable, c) + 31 ELSE 0

CharOf(code) == IF code \in 32..126 THEN Printable[code - 31] ELSE OtherChar

Contains(s, c) == \E i \in 1..Len(s) : s[i] = c

StartsWith(s, c) == Len(s) > 0 /\ s[1] = c

Drop(s, n) == IF n >= Len(s) THEN <<>> ELSE SubSeq(s, n + 1, Len(s))

\* String.prototype.split on a one-character separator: "" splits to [""].
RECURSIVE Split(_, _)
Split(s, sep) ==
    IF ~Contains(s, sep) THEN <<s>>
    ELSE LET i == IndexOf(s, sep)
         IN  <<SubSeq(s, 1, i - 1)>> \o Split(Drop(s, i), sep)

\* Array.prototype.filter(Boolean) on strings: the empty string is falsy.
FilterNonEmpty(parts) == SelectSeq(parts, LAMBDA p : p # <<>>)

RECURSIVE Join(_, _)
Join(parts, sep) ==
    IF parts = <<>> THEN <<>>
    ELSE IF Len(parts) = 1 THEN parts[1]
    ELSE parts[1] \o <<sep>> \o Join(Tail(parts), sep)

RECURSIVE NatToStr(_)
NatToStr(n) ==
    IF n < 10 THEN <<Digits[n + 1]>>
    ELSE NatToStr(n \div 10) \o <<Digits[(n % 10) + 1]>>

\* String(n) for an integer n.
IntToStr(n) == IF n < 0 THEN <<"-">> \o NatToStr(0 - n) ELSE NatToStr(n)

RECURSIVE DigitsToNat(_)
DigitsToNat(s) ==
    IF s = <<>> THEN 0
    ELSE DigitsToNat(SubSeq(s, 1, Len(s) - 1)) * 10 + (IndexOf(Digits, s[Len(s)]) - 1)

AllDigits(s) == Len(s) > 0 /\ \A i \in 1..Len(s) : IsDigit(s[i])

\* A canonical array index: "0", "1", ..., with no leading zero.
IsArrayIndex(s) == AllDigits(s) /\ (Len(s) = 1 \/ s[1] # "0")

-----------------------------------------------------------------------------
(* Results of calls that may throw *)

Ret(v) == [threw |-> FALSE, val |-> v]

Throw(name) == [threw |-> TRUE, val |-> name]

-----------------------------------------------------------------------------
(* encodeURIComponent / decodeURIComponent *)

\* The characters encodeURIComponent leaves alone.
UriUnreserved ==
    {Printable[i] : i \in (17..26) \cup (34..59) \cup (66..91)}
        \cup {"-", "_", ".", "!", "~", "*", "'", "(", ")"}

EncodeChar(c) ==
    IF c \in UriUnreserved THEN <<c>>
    ELSE <<"%", HexUpper[(CharCode(c) \div 16) + 1], HexUpper[(CharCode(c) % 16) + 1]>>

RECURSIVE encodeURIComponent(_)
encodeURIComponent(s) ==
    IF s = <<>> THEN <<>> ELSE EncodeChar(Head(s)) \o encodeURIComponent(Tail(s))

\* The byte a "%XY" escape at the head of s stands for, or -1 when s does not
\* start with a well-formed escape.
EscapeByte(s) ==
    IF Len(s) >= 3 /\ s[1] = "%" /\ IsHex(s[2]) /\ IsHex(s[3])
    THEN HexVal(s[2]) * 16 + HexVal(s[3])
    ELSE -1

\* The number of continuation bytes a UTF-8 lead byte announces, -1 for a byte
\* that cannot lead.
Utf8Trail(b) ==
    IF b < 128 THEN 0
    ELSE IF b \in 194..223 THEN 1
    ELSE IF b \in 224..239 THEN 2
    ELSE IF b \in 240..244 THEN 3
    ELSE -1

RECURSIVE TrailOk(_, _)
TrailOk(s, n) ==
    IF n = 0 THEN TRUE
    ELSE EscapeByte(s) \in 128..191 /\ TrailOk(Drop(s, 3), n - 1)

\* decodeURIComponent: a malformed escape, or escapes that are not UTF-8, throw
\* URIError.  A well-formed multi-byte character decodes to OtherChar.
RECURSIVE decodeURIComponent(_)
decodeURIComponent(s) ==
    IF s = <<>> THEN Ret(<<>>)
    ELSE IF Head(s) # "%"
    THEN LET r == decodeURIComponent(Tail(s))
         IN  IF r.threw THEN r ELSE Ret(<<Head(s)>> \o r.val)
    ELSE LET b == EscapeByte(s)
             n == IF b < 0 THEN -1 ELSE Utf8Trail(b)
         IN  IF n < 0 THEN Throw("URIError")
             ELSE IF ~TrailOk(Drop(s, 3), n) THEN Throw("URIError")
             ELSE LET r == decodeURIComponent(Drop(s, 3 * (n + 1)))
                      c == IF n = 0 THEN CharOf(b) ELSE OtherChar
                  IN  IF r.threw THEN r ELSE Ret(<<c>> \o r.val)

-----------------------------------------------------------------------------
(* JavaScript values *)

\* A string literal as a sequence of characters.
Str(lit) == [i \in 1..Len(lit) |-> SubSeq(lit, i, i)]

Blank(tag) == [t |-> tag, s |-> <<>>, n |-> 0, b |-> FALSE, p |-> <<>>]

Undef == Blank("undef")

Null == Blank("null")

MkBool(b) == [Blank("bool") EXCEPT !.b = b]

MkNum(n) == [Blank("num") EXCEPT !.n = n]

MkStr(s) == [Blank("str") EXCEPT !.s = s]

MkObj(props) == [Blank("obj") EXCEPT !.p = props]

MkArr(props) == [Blank("arr") EXCEPT !.p = props]

EmptyObj == MkObj(<<>>)

IsContainer(x) == x.t \in {"obj", "arr"}

\* The own properties of a value, as Object.entries and the spread operator see
\* them: a string has one per character, other primitives have none.
Entries(x) ==
    IF IsContainer(x) THEN x.p
    ELSE IF x.t = "str" THEN [i \in 1..Len(x.s) |-> <<NatToStr(i - 1), MkStr(<<x.s[i]>>)>>]
    ELSE <<>>

Keys(x) == {Entries(x)[i][1] : i \in 1..Len(Entries(x))}

HasKey(x, k) == k \in Keys(x)

\* The keys of x in property order, as for...in visits them.
KeyList(x) == [i \in 1..Len(Entries(x)) |-> Entries(x)[i][1]]

\* x[k]: undefined when x has no such property.
Get(x, k) ==
    IF HasKey(x, k)
    THEN LET i == CHOOSE i \in 1..Len(Entries(x)) : Entries(x)[i][1] = k
         IN  Entries(x)[i][2]
    ELSE Undef

\* Where a new property k goes in a property list: array indices come first, in
\* ascending order, other keys follow in insertion order.
InsertAt(props, k) ==
    IF IsArrayIndex(k)
    THEN Cardinality({i \in 1..Len(props) :
             IsArrayIndex(props[i][1]) /\ DigitsToNat(props[i][1]) < DigitsToNat(k)}) + 1
    ELSE Len(props) + 1

\* x[k] = val on an object or an array.
SetProp(x, k, val) ==
    IF HasKey(x, k)
    THEN [x EXCEPT !.p = [i \in 1..Len(x.p) |->
                            IF x.p[i][1] = k THEN <<k, val>> ELSE x.p[i]]]
    ELSE LET at == InsertAt(x.p, k)
         IN  [x EXCEPT !.p = SubSeq(x.p, 1, at - 1) \o <<<<k, val>>>>
                                \o SubSeq(x.p, at, Len(x.p))]

\* Array length: one past the largest index.
ArrLength(a) ==
    LET idx == {DigitsToNat(a.p[i][1]) : i \in {j \in 1..Len(a.p) : IsArrayIndex(a.p[j][1])}}
    IN  IF idx = {} THEN 0 ELSE 1 + CHOOSE m \in idx : \A n \in idx : n <= m

\* { ...a, ...b }: b's own properties assigned over a copy of a's.
RECURSIVE AssignAll(_, _)
AssignAll(target, props) ==
    IF props = <<>> THEN target
    ELSE AssignAll(SetProp(target, Head(props)[1], Head(props)[2]), Tail(props))

Spread(a, b) == AssignAll(AssignAll(EmptyObj, Entries(a)), Entries(b))

\* Truthiness of a value.
Truthy(x) ==
    CASE x.t = "undef" -> FALSE
      [] x.t = "null" -> FALSE
      [] x.t = "bool" -> x.b
      [] x.t = "num" -> x.n # 0
      [] x.t = "str" -> x.s # <<>>
      [] OTHER -> TRUE

\* String(x) for a scalar.
ToStr(x) ==
    CASE x.t = "str" -> x.s
      [] x.t = "num" -> IntToStr(x.n)
      [] x.t = "bool" -> IF x.b THEN Str("true") ELSE Str("false")
      [] x.t = "null" -> Str("null")
      [] OTHER -> Str("undefined")

-----------------------------------------------------------------------------
(* Number(string) *)

RECURSIVE DigitRun(_)
DigitRun(s) == IF s # <<>> /\ IsDigit(Head(s)) THEN 1 + DigitRun(Tail(s)) ELSE 0

RECURSIVE TrimLeft(_)
TrimLeft(s) == IF StartsWith(s, " ") THEN TrimLeft(Tail(s)) ELSE s

RECURSIVE TrimRight(_)
TrimRight(s) ==
    IF s # <<>> /\ s[Len(s)] = " " THEN TrimRight(SubSeq(s, 1, Len(s) - 1)) ELSE s

AllIn(s, set) == Len(s) > 0 /\ \A i \in 1..Len(s) : s[i] \in set

\* An optional exponent part: nothing, or e/E, an optional sign and digits.
IsExponent(s) ==
    \/ s = <<>>
    \/ /\ Len(s) >= 2
       /\ s[1] \in {"e", "E"}
       /\ LET r == IF s[2] \in {"+", "-"} THEN Drop(s, 2) ELSE Tail(s)
          IN  AllDigits(r)

\* An unsigned decimal literal: digits [. digits] [exp], or . digits [exp].
IsDecimal(s) ==
    LET n == DigitRun(s)
        r == Drop(s, n)
    IN  IF n > 0
        THEN IF StartsWith(r, ".")
             THEN IsExponent(Drop(Tail(r), DigitRun(Tail(r))))
             ELSE IsExponent(r)
        ELSE /\ StartsWith(r, ".")
             /\ DigitRun(Tail(r)) > 0
             /\ IsExponent(Drop(Tail(r), DigitRun(Tail(r))))

IsRadixLiteral(s) ==
    /\ Len(s) >= 3
    /\ s[1] = "0"
    /\ \/ s[2] \in {"x", "X"} /\ \A i \in 3..Len(s) : IsHex(s[i])
       \/ s[2] \in {"o", "O"} /\ AllIn(Drop(s, 2), {"0", "1", "2", "3", "4", "5", "6", "7"})
       \/ s[2] \in {"b", "B"} /\ AllIn(Drop(s, 2), {"0", "1"})

\* !isNaN(Number(s)): the empty (or blank) string is 0.
NumberIsNotNaN(s) ==
    LET t == TrimRight(TrimLeft(s))
        u == IF t # <<>> /\ t[1] \in {"+", "-"} THEN Tail(t) ELSE t
    IN  \/ t = <<>>
        \/ IsRadixLiteral(t)
        \/ u = Str("Infinity")
        \/ IsDecimal(u)

-----------------------------------------------------------------------------
(* QueryStringConverter.objectToQueryString *)

BracketKey(prefix, key) == prefix \o <<"[">> \o key \o <<"]">>

RECURSIVE ObjectParts(_, _), ArrayParts(_, _, _)

\* The query parts the entries of an object (or array) push, in order.
ObjectParts(entries, prefix) ==
    IF entries = <<>> THEN <<>>
    ELSE LET key == Head(entries)[1]
             value == Head(entries)[2]
             fullKey == IF prefix # <<>> THEN BracketKey(prefix, key) ELSE key
             rest == ObjectParts(Tail(entries), prefix)
         IN  IF value.t \in {"null", "undef"} THEN rest
             ELSE IF value.t = "obj"
             THEN LET nested == Join(ObjectParts(Entries(value), fullKey), "&")
                  IN  IF nested # <<>> THEN <<nested>> \o rest ELSE rest
             ELSE IF value.t = "arr"
             THEN ArrayParts(value, fullKey, 0) \o rest
             ELSE <<encodeURIComponent(fullKey) \o <<"=">>
                        \o encodeURIComponent(ToStr(value))>> \o rest

\* The query parts the elements arrayIndex.. of an array push.
ArrayParts(value, fullKey, arrayIndex) ==
    IF arrayIndex >= ArrLength(value) THEN <<>>
    ELSE LET arrayItem == Get(value, NatToStr(arrayIndex))
             rest == ArrayParts(value, fullKey, arrayIndex + 1)
         IN  IF IsContainer(arrayItem)
             THEN <<Join(ObjectParts(Entries(arrayItem),
                                     BracketKey(fullKey, NatToStr(arrayIndex))), "&")>>
                      \o rest
             ELSE IF arrayItem.t \notin {"null", "undef"}
             THEN <<encodeURIComponent(fullKey) \o <<"[">> \o NatToStr(arrayIndex)
                        \o <<"]", "=">> \o encodeURIComponent(ToStr(arrayItem))>> \o rest
             ELSE rest

objectToQueryString(object) == Join(ObjectParts(Entries(object), <<>>), "&")

-----------------------------------------------------------------------------
(* QueryStringConverter.queryStringToObject *)

IsBracket(c) == c \in {"[", "]"}

RECURSIVE PlainRun(_)
PlainRun(s) == IF s # <<>> /\ ~IsBracket(Head(s)) THEN 1 + PlainRun(Tail(s)) ELSE 0

\* key.match(/([^[\]]+)|\[([^[\]]*)\]/g): the matches, left to right; the empty
\* list stands for null.
RECURSIVE KeySegments(_)
KeySegments(key) ==
    IF key = <<>> THEN <<>>
    ELSE IF ~IsBracket(Head(key))
    THEN LET n == PlainRun(key)
         IN  <<SubSeq(key, 1, n)>> \o KeySegments(Drop(key, n))
    ELSE IF Head(key) = "["
    THEN LET n == PlainRun(Tail(key))
         IN  IF Len(key) >= n + 2 /\ key[n + 2] = "]"
             THEN <<SubSeq(key, 1, n + 2)>> \o KeySegments(Drop(key, n + 2))
             ELSE KeySegments(Tail(key))
    ELSE KeySegments(Tail(key))

\* segment.replace(/\[|\]/g, "")
CleanKey(segment) == SelectSeq(segment, LAMBDA c : ~IsBracket(c))

\* A decoder that never creates a Sequence.
NewContainerMapping(nextSegment) == EmptyObj

\* The container created at an intermediate segment, from the next segment.
NewContainer(nextSegment) ==
    IF NumberIsNotNaN(CleanKey(nextSegment)) THEN MkArr(<<>>) ELSE EmptyObj

\* level[k] = val in strict mode: a TypeError when level is a primitive.
Assign(level, k, val) ==
    IF IsContainer(level) THEN Ret(SetProp(level, k, val)) ELSE Throw("TypeError")

\* A decode result: the tree (or the error thrown), with the containers the
\* walk created, each with the segment it was decided from.
Decoded(r, created) == [threw |-> r.threw, val |-> r.val, created |-> created]

RECURSIVE WalkSegments(_, _, _)

\* if (!currentLevel[cleanKey]) currentLevel[cleanKey] = <new container>: the
\* level after it, with the container it created.
EnsureContainer(currentLevel, cleanKey, nextSegment) ==
    IF Truthy(Get(currentLevel, cleanKey)) THEN Decoded(Ret(currentLevel), <<>>)
    ELSE IF ~IsContainer(currentLevel) THEN Decoded(Throw("TypeError"), <<>>)
    ELSE Decoded(Assign(currentLevel, cleanKey, NewContainer(nextSegment)),
                 <<[next |-> CleanKey(nextSegment),
                    kind |-> NewContainer(nextSegment).t]>>)

\* The level with the walked child put back under cleanKey.
Reattach(made, cleanKey, below) ==
    IF below.threw THEN below
    ELSE IF IsContainer(made.val)
    THEN Decoded(Ret(SetProp(made.val, cleanKey, below.val)),
                 made.created \o below.created)
    ELSE Decoded(Ret(made.val), made.created \o below.created)

\* currentLevel = currentLevel[cleanKey], and the walk goes on below.
Descend(made, cleanKey, keySegments, value) ==
    IF made.threw THEN made
    ELSE Reattach(made, cleanKey,
                  WalkSegments(Get(made.val, cleanKey), Tail(keySegments), value))

\* The walk of one key's segments from currentLevel: the level as the walk
\* leaves it, or the TypeError of an assignment to a primitive.
WalkSegments(currentLevel, keySegments, value) ==
    IF Len(keySegments) = 1
    THEN Decoded(Assign(currentLevel, CleanKey(Head(keySegments)), value), <<>>)
    ELSE Descend(EnsureContainer(currentLevel, CleanKey(Head(keySegments)),
                                 keySegments[2]),
                 CleanKey(Head(keySegments)), keySegments, value)

\* decodeURIComponent of one more piece, after the pieces before it.
DecodePiece(sofar, piece) ==
    IF sofar.threw THEN sofar
    ELSE IF decodeURIComponent(piece).threw THEN decodeURIComponent(piece)
    ELSE Ret(Append(sofar.val, decodeURIComponent(piece).val))

\* queryPair.split("=").map(decodeURIComponent): every piece is decoded.
RECURSIVE DecodeAll(_)
DecodeAll(pieces) ==
    IF pieces = <<>> THEN Ret(<<>>)
    ELSE DecodePiece(DecodeAll(SubSeq(pieces, 1, Len(pieces) - 1)), pieces[Len(pieces)])

\* The body of the loop once key and value are decoded: a pair whose key is
\* empty or has no segment is skipped.
AssignPair(parsedObject, key, value, keySegments) ==
    IF key = <<>> \/ keySegments = <<>> THEN Decoded(Ret(parsedObject), <<>>)
    ELSE WalkSegments(parsedObject, keySegments, value)

DecodePair(parsedObject, pieces) ==
    IF pieces.threw THEN Decoded(pieces, <<>>)
    ELSE AssignPair(parsedObject, pieces.val[1],
                    IF Len(pieces.val) >= 2 THEN MkStr(pieces.val[2]) ELSE Undef,
                    KeySegments(pieces.val[1]))

\* One more pair of the loop, after the pairs before it.
NextPair(sofar, walked) ==
    IF walked.threw THEN walked
    ELSE Decoded(Ret(walked.val), sofar.created \o walked.created)

ThenPair(sofar, queryPair) ==
    IF sofar.threw THEN sofar
    ELSE NextPair(sofar, DecodePair(sofar.val, DecodeAll(Split(queryPair, "="))))

\* for (const queryPair of queryPairs) {...}
RECURSIVE DecodePairs(_, _)
DecodePairs(parsedObject, queryPairs) ==
    IF queryPairs = <<>> THEN Decoded(Ret(parsedObject), <<>>)
    ELSE ThenPair(DecodePairs(parsedObject, SubSeq(queryPairs, 1, Len(queryPairs) - 1)),
                  queryPairs[Len(queryPairs)])

CleanedQuery(queryString) ==
    IF StartsWith(queryString, "?") THEN Tail(queryString) ELSE queryString

queryStringToObject(queryString) ==
    IF queryString = <<>> \/ queryString = <<"?">> THEN Decoded(Ret(EmptyObj), <<>>)
    ELSE DecodePairs(EmptyObj, FilterNonEmpty(Split(CleanedQuery(queryString), "&")))

-----------------------------------------------------------------------------
(* DataCompressor: the marker lookup through URLSearchParams *)

\* The percent-decoding of URLSearchParams: it never throws; an escape that is
\* not well formed stays as written, "+" is a space, and a byte that is not UTF-8
\* becomes the replacement character.
RECURSIVE FormDecode(_)
FormDecode(s) ==
    IF s = <<>> THEN <<>>
    ELSE IF Head(s) = "+" THEN <<" ">> \o FormDecode(Tail(s))
    ELSE IF EscapeByte(s) < 0 THEN <<Head(s)>> \o FormDecode(Tail(s))
    ELSE LET b == EscapeByte(s)
             n == Utf8Trail(b)
         IN  IF n = 0 THEN <<CharOf(b)>> \o FormDecode(Drop(s, 3))
             ELSE IF n > 0 /\ TrailOk(Drop(s, 3), n)
             THEN <<OtherChar>> \o FormDecode(Drop(s, 3 * (n + 1)))
             ELSE <<OtherChar>> \o FormDecode(Drop(s, 3))

\* One name/value pair of a URLSearchParams: split at the first "=".
FormPair(piece) ==
    LET i == IndexOf(piece, "=")
    IN  IF i = 0 THEN <<FormDecode(piece), <<>>>>
        ELSE <<FormDecode(SubSeq(piece, 1, i - 1)), FormDecode(Drop(piece, i))>>

\* new URLSearchParams(init): the list of its pairs.
URLSearchParams(init) ==
    LET body == IF StartsWith(init, "?") THEN Tail(init) ELSE init
        pieces == FilterNonEmpty(Split(body, "&"))
    IN  [i \in 1..Len(pieces) |-> FormPair(pieces[i])]

\* url.includes("?") ? url.split("?")[1] : ""
SearchOf(url) == IF Contains(url, "?") THEN Split(url, "?")[2] ELSE <<>>

hasCompressedData(url, paramName) ==
    LET searchParams == URLSearchParams(SearchOf(url))
    IN  \E i \in 1..Len(searchParams) : searchParams[i][1] = paramName

\* searchParams.get(paramName): the first value, null when there is none.
getCompressedData(url, paramName) ==
    LET searchParams == URLSearchParams(SearchOf(url))
        hits == SelectSeq(searchParams, LAMBDA pr : pr[1] = paramName)
    IN  IF hits = <<>> THEN Null ELSE MkStr(hits[1][2])

-----------------------------------------------------------------------------
(* JSON.stringify and JSON.parse *)

Quote == "<dq>"

Backslash == "<bs>"

RECURSIVE JsonEscape(_)
JsonEscape(s) ==
    IF s = <<>> THEN <<>>
    ELSE (IF Head(s) \in {Quote, Backslash} THEN <<Backslash, Head(s)>> ELSE <<Head(s)>>)
             \o JsonEscape(Tail(s))

JsonQuote(s) == <<Quote>> \o JsonEscape(s) \o <<Quote>>

RECURSIVE JsonText(_), JsonMembers(_), JsonElements(_, _)

\* The text of a value that is not undefined.
JsonText(x) ==
    CASE x.t = "obj" -> <<"{">> \o Join(JsonMembers(x.p), ",") \o <<"}">>
      [] x.t = "arr" -> <<"[">> \o Join(JsonElements(x, 0), ",") \o <<"]">>
      [] x.t = "str" -> JsonQuote(x.s)
      [] OTHER -> ToStr(x)

\* An object's members: a property holding undefined is left out.
JsonMembers(props) ==
    IF props = <<>> THEN <<>>
    ELSE IF Head(props)[2].t = "undef" THEN JsonMembers(Tail(props))
    ELSE <<JsonQuote(Head(props)[1]) \o <<":">> \o JsonText(Head(props)[2])>>
             \o JsonMembers(Tail(props))

\* An array's elements by index: a hole or undefined is written null.
JsonElements(a, i) ==
    IF i >= ArrLength(a) THEN <<>>
    ELSE LET e == Get(a, NatToStr(i))
         IN  <<IF e.t = "undef" THEN Str("null") ELSE JsonText(e)>>
                 \o JsonElements(a, i + 1)

\* JSON.stringify(x): undefined for undefined.
JSONstringify(x) == IF x.t = "undef" THEN Undef ELSE MkStr(JsonText(x))

NoParse == [ok |-> FALSE, val |-> Undef, rest |-> <<>>]

Parsed(val, rest) == [ok |-> TRUE, val |-> val, rest |-> rest]

\* The characters of a JSON string body up to its closing quote.
RECURSIVE ParseChars(_)
ParseChars(s) ==
    IF s = <<>> THEN NoParse
    ELSE IF Head(s) = Quote THEN Parsed(<<>>, Tail(s))
    ELSE IF Head(s) = Backslash
    THEN IF Len(s) >= 2 /\ s[2] \in {Quote, Backslash, "/"}
         THEN LET r == ParseChars(Drop(s, 2))
              IN  IF r.ok THEN Parsed(<<s[2]>> \o r.val, r.rest) ELSE NoParse
         ELSE IF Len(s) >= 2 /\ s[2] \in {"b", "f", "n", "r", "t"}
         THEN LET r == ParseChars(Drop(s, 2))
              IN  IF r.ok THEN Parsed(<<OtherChar>> \o r.val, r.rest) ELSE NoParse
         ELSE IF Len(s) >= 6 /\ s[2] = "u" /\ \A i \in 3..6 : IsHex(s[i])
         THEN LET r == ParseChars(Drop(s, 6))
                  code == ((HexVal(s[3]) * 16 + HexVal(s[4])) * 16 + HexVal(s[5])) * 16
                              + HexVal(s[6])
              IN  IF r.ok THEN Parsed(<<CharOf(code)>> \o r.val, r.rest) ELSE NoParse
         ELSE NoParse
    ELSE IF Head(s) = OtherChar THEN NoParse
    ELSE LET r == ParseChars(Tail(s))
         IN  IF r.ok THEN Parsed(<<Head(s)>> \o r.val, r.rest) ELSE NoParse

\* The exponent of a JSON number: its digits are read and dropped.
ExponentDigits(magnitude, expBody) ==
    IF DigitRun(expBody) = 0 THEN NoParse
    ELSE Parsed(MkNum(magnitude), Drop(expBody, DigitRun(expBody)))

Exponent(magnitude, afterFrac) ==
    IF afterFrac # <<>> /\ afterFrac[1] \in {"e", "E"}
    THEN ExponentDigits(magnitude,
                        IF Len(afterFrac) >= 2 /\ afterFrac[2] \in {"+", "-"}
                        THEN Drop(afterFrac, 2) ELSE Drop(afterFrac, 1))
    ELSE Parsed(MkNum(magnitude), afterFrac)

\* The fraction of a JSON number.  The model's numbers are integers: the fraction
\* is read and dropped.
Fraction(magnitude, afterInt) ==
    IF ~StartsWith(afterInt, ".") THEN Exponent(magnitude, afterInt)
    ELSE IF DigitRun(Tail(afterInt)) = 0 THEN NoParse
    ELSE Exponent(magnitude, Drop(afterInt, DigitRun(Tail(afterInt)) + 1))

ParseUnsigned(u) ==
    IF DigitRun(u) = 0 \/ (DigitRun(u) > 1 /\ u[1] = "0") THEN NoParse
    ELSE Fraction(DigitsToNat(SubSeq(u, 1, DigitRun(u))), Drop(u, DigitRun(u)))

Negated(r) == IF r.ok THEN Parsed(MkNum(0 - r.val.n), r.rest) ELSE r

\* A JSON number.
ParseNumber(s) ==
    IF StartsWith(s, "-") THEN Negated(ParseUnsigned(Tail(s))) ELSE ParseUnsigned(s)

IsPrefix(lit, s) == Len(s) >= Len(lit) /\ SubSeq(s, 1, Len(lit)) = lit

RECURSIVE ParseValue(_), ParseMembers(_, _), ParseElements(_, _)

MemberNext(object, after) ==
    IF StartsWith(after, "}") THEN Parsed(object, Tail(after))
    ELSE IF StartsWith(after, ",") THEN ParseMembers(object, Tail(after))
    ELSE NoParse

\* A later duplicate key overwrites.
MemberEnd(object, key, val) ==
    IF ~val.ok THEN NoParse
    ELSE MemberNext(SetProp(object, key, val.val), TrimLeft(val.rest))

MemberValue(object, key, afterKey) ==
    IF ~StartsWith(afterKey, ":") THEN NoParse
    ELSE MemberEnd(object, key, ParseValue(Tail(afterKey)))

MemberColon(object, k) ==
    IF ~k.ok THEN NoParse ELSE MemberValue(object, k.val, TrimLeft(k.rest))

MemberKey(object, s) ==
    IF ~StartsWith(s, Quote) THEN NoParse ELSE MemberColon(object, ParseChars(Tail(s)))

\* The members of an object after "{" or ",".
ParseMembers(object, text) == MemberKey(object, TrimLeft(text))

ElementNext(array, after) ==
    IF StartsWith(after, "]") THEN Parsed(array, Tail(after))
    ELSE IF StartsWith(after, ",") THEN ParseElements(array, Tail(after))
    ELSE NoParse

ElementEnd(array, val) ==
    IF ~val.ok THEN NoParse
    ELSE ElementNext(SetProp(array, NatToStr(ArrLength(array)), val.val),
                     TrimLeft(val.rest))

\* The elements of an array after "[" or ",".
ParseElements(array, text) == ElementEnd(array, ParseValue(text))

ParseObject(s) ==
    IF StartsWith(s, "}") THEN Parsed(EmptyObj, Tail(s)) ELSE ParseMembers(EmptyObj, s)

ParseArray(s) ==
    IF StartsWith(s, "]") THEN Parsed(MkArr(<<>>), Tail(s))
    ELSE ParseElements(MkArr(<<>>), s)

StringValue(r) == IF r.ok THEN Parsed(MkStr(r.val), r.rest) ELSE NoParse

ParseTrimmed(s) ==
    IF s = <<>> THEN NoParse
    ELSE IF Head(s) = "{" THEN ParseObject(TrimLeft(Tail(s)))
    ELSE IF Head(s) = "[" THEN ParseArray(TrimLeft(Tail(s)))
    ELSE IF Head(s) = Quote THEN StringValue(ParseChars(Tail(s)))
    ELSE IF IsPrefix(Str("true"), s) THEN Parsed(MkBool(TRUE), Drop(s, 4))
    ELSE IF IsPrefix(Str("false"), s) THEN Parsed(MkBool(FALSE), Drop(s, 5))
    ELSE IF IsPrefix(Str("null"), s) THEN Parsed(Null, Drop(s, 4))
    ELSE ParseNumber(s)

ParseValue(text) == ParseTrimmed(TrimLeft(text))

\* JSON.parse(text): SyntaxError unless text is exactly one JSON value.
WholeText(r) ==
    IF r.ok /\ TrimLeft(r.rest) = <<>> THEN Ret(r.val) ELSE Throw("SyntaxError")

JSONparse(text) == WholeText(ParseValue(text))

-----------------------------------------------------------------------------
(* The collaborators a caller supplies: the compressor and the validator *)

\* compress: a one-character tag before the text.
Compress(data) == <<"z">> \o data

\* decompress: the text after the tag; it throws on "!" and hands any other
\* untagged text back as it is.
Decompress(data) ==
    IF StartsWith(data, "z") THEN Ret(Tail(data))
    ELSE IF StartsWith(data, "!") THEN Throw("Error")
    ELSE Ret(data)

ValidatorKinds == {"accept", "reject", "nodata", "schema"}

Contexts == {"serialized", "deserialized"}

Invalid == [success |-> FALSE, data |-> Undef]

Valid(data) == [success |-> TRUE, data |-> data]

\* The schema { a?: string, n?: number }: unknown keys are stripped, and a digit
\* string is widened to a number when the data comes from the URL.
SchemaField(data, context, key) ==
    LET x == Get(data, key)
    IN  IF x.t = "undef" THEN Ret(Undef)
        ELSE IF key = Str("a") THEN (IF x.t = "str" THEN Ret(x) ELSE Throw("a"))
        ELSE IF x.t = "num" THEN Ret(x)
        ELSE IF context = "serialized" /\ x.t = "str" /\ IsArrayIndex(x.s)
        THEN Ret(MkNum(DigitsToNat(x.s)))
        ELSE Throw("n")

SchemaValidator(data, context) ==
    LET a == SchemaField(data, context, Str("a"))
        n == SchemaField(data, context, Str("n"))
        withA == IF a.val.t = "undef" THEN EmptyObj ELSE SetProp(EmptyObj, Str("a"), a.val)
    IN  IF data.t # "obj" \/ a.threw \/ n.threw THEN Invalid
        ELSE Valid(IF n.val.t = "undef" THEN withA ELSE SetProp(withA, Str("n"), n.val))

\* validator(data, context) for each kind of validator the model is run with.
Validator(kind, data, context) ==
    CASE kind = "accept" -> Valid(data)
      [] kind = "reject" -> Invalid
      [] kind = "nodata" -> Valid(Undef)
      [] OTHER -> SchemaValidator(data, context)

-----------------------------------------------------------------------------
(* QueryParamCore *)

DefaultThreshold == 500

DefaultParamName == Str("qs")

\* window.location.pathname
Pathname == Str("/")

\* Marks an option that was not given.
NotGiven == -1

\* this.compressionOptions, from the constructor: null without compression.
CompressionOptions(options) ==
    [threshold |-> IF options.threshold = NotGiven \/ options.threshold = 0
                   THEN DefaultThreshold ELSE options.threshold,
     paramName |-> IF options.paramName = <<>> THEN DefaultParamName
                   ELSE options.paramName]

\* options.defaultValues ? structuredClone(options.defaultValues) : {}
DefaultsOrEmpty(options) ==
    IF Truthy(options.defaultValues) THEN options.defaultValues ELSE EmptyObj

applyDefaultValues(options, p) == Spread(DefaultsOrEmpty(options), p)

\* What a read returns, with what it did on the way: the branch taken, the texts
\* handed to decompress, the structures merged over the defaults, the values
\* handed to the validator, and whether the QueryCodec decoded the string.
ReadResult(r, branch, decompressed, merged, handed, decoded) ==
    [threw |-> r.threw, val |-> r.val, branch |-> branch, decompressed |-> decompressed,
     merged |-> merged, handed |-> handed, decoded |-> decoded]

\* A read that keeps the merged data whatever the validator returns.
MergedAlways(validationResult, mergedData) == mergedData

\* validationResult.success && validationResult.data ? validationResult.data
\* : mergedData
ValidatedOr(validationResult, mergedData) ==
    IF validationResult.success /\ Truthy(validationResult.data)
    THEN validationResult.data
    ELSE mergedData

\* The tail both read branches share: the merged structure goes to the
\* validator, and its data, or else the merged structure, is returned.
ValidateMerged(options, parsedData, mergedData, branch, decompressed, decoded) ==
    ReadResult(Ret(ValidatedOr(Validator(options.validator, mergedData, "serialized"),
                               mergedData)),
               branch, decompressed, <<parsedData>>, <<mergedData>>, decoded)

MergeSerialized(options, parsed, defaultParams, branch) ==
    IF parsed.threw THEN ReadResult(parsed, branch, <<>>, <<>>, <<>>, TRUE)
    ELSE ValidateMerged(options, parsed.val, Spread(defaultParams, parsed.val),
                        branch, <<>>, TRUE)

parsedSerializedParams(options, queryString, defaultParams, branch) ==
    MergeSerialized(options, queryStringToObject(queryString), defaultParams, branch)

\* A catch block that returns an empty value and forgets the defaults.
FallBackEmpty(defaultParams, decompressed) ==
    ReadResult(Ret(EmptyObj), "compressed", decompressed, <<>>, <<>>, FALSE)

\* The return of the catch block, and of an empty marker value.
FallBack(defaultParams, decompressed) ==
    ReadResult(Ret(defaultParams), "compressed", decompressed, <<>>, <<>>, FALSE)

MergePayload(options, compressed, parsed, defaultParams) ==
    IF parsed.threw THEN FallBack(defaultParams, <<compressed>>)
    ELSE ValidateMerged(options, parsed.val, Spread(defaultParams, parsed.val),
                        "compressed", <<compressed>>, FALSE)

ParsePayload(options, compressed, decompressed, defaultParams) ==
    IF decompressed.threw THEN FallBack(defaultParams, <<compressed>>)
    ELSE MergePayload(options, compressed, JSONparse(decompressed.val), defaultParams)

DecompressPayload(options, compressed, defaultParams) ==
    IF ~Truthy(compressed) THEN FallBack(defaultParams, <<>>)
    ELSE ParsePayload(options, compressed.s, Decompress(compressed.s), defaultParams)

\* The try block of parseCompressedParams: anything thrown in it is caught, and
\* the defaults are returned.
parseCompressedParams(options, queryString, defaultParams) ==
    IF ~options.compression
    THEN parsedSerializedParams(options, queryString, defaultParams, "compressed")
    ELSE DecompressPayload(options,
                           getCompressedData(queryString,
                                             CompressionOptions(options).paramName),
                           defaultParams)

parseQueryParams(options, queryString) ==
    IF options.compression
       /\ hasCompressedData(queryString, CompressionOptions(options).paramName)
    THEN parseCompressedParams(options, queryString, applyDefaultValues(options, EmptyObj))
    ELSE parsedSerializedParams(options, queryString,
                                applyDefaultValues(options, EmptyObj), "serialized")

\* The outcome of validateDeserializedParams, with the value handed to the
\* validator.
Outcome(validationResult, withDefaults) ==
    [success |-> validationResult.success, data |-> validationResult.data,
     handed |-> withDefaults]

ValidateWithDefaults(options, withDefaults) ==
    Outcome(Validator(options.validator, withDefaults, "deserialized"), withDefaults)

\* A merge with the defaults spread last, over the candidate.
validateDefaultsLast(options, p) ==
    ValidateWithDefaults(options,
                         Spread(IF Truthy(p) THEN p ELSE EmptyObj,
                                DefaultsOrEmpty(options)))

validateDeserializedParams(options, p) ==
    ValidateWithDefaults(options,
                         Spread(DefaultsOrEmpty(options),
                                IF Truthy(p) THEN p ELSE EmptyObj))

BasePath(options) == IF options.basePath # <<>> THEN options.basePath ELSE Pathname

\* basePath, then "?" and the query string when there is one.
UrlOf(options, queryString) ==
    BasePath(options) \o (IF queryString # <<>> THEN <<"?">> \o queryString ELSE <<>>)

\* Object.entries(undefined) and Object.entries(null) throw.
createRegularUrl(options, p) ==
    IF p.t \in {"undef", "null"} THEN Throw("TypeError")
    ELSE Ret(UrlOf(options, objectToQueryString(p)))

createCompressedUrl(options, p) ==
    IF ~options.compression THEN createRegularUrl(options, p)
    ELSE Ret(BasePath(options) \o <<"?">> \o CompressionOptions(options).paramName
                 \o <<"=">> \o encodeURIComponent(Compress(JSONstringify(p).s)))

\* createUrl(params): JSON.stringify(undefined) has no length, which throws.
createUrl(options, p) ==
    IF options.compression /\ p.t = "undef" THEN Throw("TypeError")
    ELSE IF options.compression
            /\ Len(JSONstringify(p).s) > CompressionOptions(options).threshold
    THEN createCompressedUrl(options, p)
    ELSE createRegularUrl(options, p)

\* Which sink updateBrowserUrl(url, replace) calls.
updateBrowserUrl(options, url, replace) ==
    [url |-> url, replace |-> replace,
     via |-> IF options.navigate THEN "navigate"
             ELSE IF replace THEN "replaceState" ELSE "pushState"]

-----------------------------------------------------------------------------
(* useQueryParams *)

\* The updaters a caller may pass for newParams, by name: "same" returns the
\* previous params, "none" returns {}.
ApplyUpdater(fn, prevParams) == IF fn.s = Str("same") THEN prevParams ELSE EmptyObj

\* updatedParamsRaw: newParams is a function, an object (null included) or
\* something else.
UpdatedParamsRaw(prevParams, newParams) ==
    IF newParams.kind = "function"
    THEN Spread(prevParams, ApplyUpdater(newParams.arg, prevParams))
    ELSE IF newParams.kind = "object" THEN Spread(prevParams, newParams.arg)
    ELSE Spread(prevParams, EmptyObj)

\* The body of the loop over finalParams: a key holding undefined takes its
\* default.
FillKey(finalParams, key, defaults) ==
    IF HasKey(defaults, key)
       /\ Get(finalParams, key).t = "undef"
       /\ Get(defaults, key).t # "undef"
    THEN SetProp(finalParams, key, Get(defaults, key))
    ELSE finalParams

RECURSIVE FillFromDefaults(_, _, _)
FillFromDefaults(finalParams, keys, defaults) ==
    IF keys = <<>> THEN finalParams
    ELSE FillFromDefaults(FillKey(finalParams, Head(keys), defaults), Tail(keys), defaults)

FillAll(updatedParamsRaw, defaults) ==
    FillFromDefaults(updatedParamsRaw, KeyList(updatedParamsRaw), defaults)

FinalParams(options, prevParams, newParams) ==
    FillAll(UpdatedParamsRaw(prevParams, newParams), DefaultsOrEmpty(options))

\* What the updater given to setParams does: the next params, the
\* updateBrowserUrl calls it made with the value each URL was built from, and
\* whether it threw.
Update(nextParams, calls, threw) == [params |-> nextParams, calls |-> calls, threw |-> threw]

\* queryCore.updateBrowserUrl(newUrl, replace); return validated
PublishValidated(options, prevParams, validated, newUrl, replace) ==
    IF newUrl.threw THEN Update(prevParams, <<>>, TRUE)
    ELSE Update(validated,
                <<[call |-> updateBrowserUrl(options, newUrl.val, replace),
                   from |-> validated]>>,
                FALSE)

\* An updater that publishes the candidate when its validation failed.
ApplyValidationLoose(options, prevParams, validationResult, replace) ==
    IF ~validationResult.success
    THEN PublishValidated(options, prevParams, validationResult.handed,
                          createUrl(options, validationResult.handed), replace)
    ELSE PublishValidated(options, prevParams, validationResult.data,
                          createUrl(options, validationResult.data), replace)

\* if (!validationResult.success) return prevParams
ApplyValidation(options, prevParams, validationResult, replace) ==
    IF ~validationResult.success THEN Update(prevParams, <<>>, FALSE)
    ELSE PublishValidated(options, prevParams, validationResult.data,
                          createUrl(options, validationResult.data), replace)

setQueryParams(options, prevParams, newParams, replace) ==
    ApplyValidation(options, prevParams,
                    validateDeserializedParams(options,
                                               FinalParams(options, prevParams, newParams)),
                    replace)

\* The argument resetQueryParams passes on.
ResetArgument(options) == [kind |-> "object", arg |-> DefaultsOrEmpty(options)]

\* location.search of a URL: from the "?" on, empty for a bare "?".
SearchFrom(url, i) == IF i = 0 \/ i = Len(url) THEN <<>> ELSE SubSeq(url, i, Len(url))

LocationSearch(url) == SearchFrom(url, IndexOf(url, "?"))

-----------------------------------------------------------------------------
(* Bounded inputs of the codec *)

\* The largest number of values below the root of an encoded tree.
MaxNodes == 3

\* The largest number of pairs in a raw query string.
MaxPairs == 2

\* The largest number of bracket groups after a key's name.
MaxGroups == 2

Leaves == {MkStr(Str("x&")), MkNum(12), MkBool(TRUE), Null}

CodecKeys == {Str("a"), Str("k"), Str("0")}

\* What a caller may put at a new place of the tree it builds.
NewChildren == Leaves \cup {EmptyObj, MkArr(<<>>)}

\* The number of scalars and containers below x.
RECURSIVE NodesBelow(_)
NodesBelow(x) ==
    IF ~IsContainer(x) \/ x.p = <<>> THEN 0
    ELSE 1 + NodesBelow(Head(x.p)[2]) + NodesBelow([x EXCEPT !.p = Tail(x.p)])

\* The trees a caller gets from x by one more assignment somewhere in it: a new
\* key of an object, or a push onto an array.
RECURSIVE Grown(_)
Grown(x) ==
    IF ~IsContainer(x) THEN {}
    ELSE {SetProp(x, k, c) :
              k \in (IF x.t = "arr" THEN {NatToStr(ArrLength(x))} ELSE CodecKeys \ Keys(x)),
              c \in NewChildren}
         \cup UNION {{SetProp(x, x.p[i][1], y) : y \in Grown(x.p[i][2])} : i \in 1..Len(x.p)}

RECURSIVE SeqsUpTo(_, _)
\* The sequences of at most n elements of set.
SeqsUpTo(set, n) ==
    IF n = 0 THEN {<<>>}
    ELSE {<<>>} \cup {<<x>> \o r : x \in set, r \in SeqsUpTo(set, n - 1)}

\* What a bracket group of a raw key holds.
GroupTexts == {<<>>, Str("0"), Str("-1"), Str("1.5"), Str("k")}

RECURSIVE Concat(_)
Concat(parts) == IF parts = <<>> THEN <<>> ELSE Head(parts) \o Concat(Tail(parts))

BracketKeys ==
    {Str("a") \o Concat([i \in 1..Len(g) |-> <<"[">> \o g[i] \o <<"]">>]) :
         g \in SeqsUpTo(GroupTexts, MaxGroups)}

\* Keys with stray brackets, an escaped bracket group, a malformed escape.
OddKeys == {Str("a["), Str("a]"), Str("]"), Str("[a"), Str("a]k[[0]]"),
            Str("a%5B0%5D"), Str("a%"), <<>>}

RawValues == {<<>>, Str("=x"), Str("=%5"), Str("=x=y")}

RawPairs == {k \o v : k \in BracketKeys \cup OddKeys, v \in RawValues}

-----------------------------------------------------------------------------
(* The codec run on its own: encode then decode a tree, or decode a raw string *)

Idle == Blank("idle")

NoOptions == [validator |-> "accept", defaultValues |-> Undef, compression |-> FALSE,
              threshold |-> NotGiven, paramName |-> <<>>, navigate |-> FALSE,
              basePath |-> <<>>]

\* The variables of the hook, while a pure operation is run.
HookIdle ==
    /\ params = Idle
    /\ search = <<>>
    /\ published = <<>>
    /\ last = Idle

CodecInit ==
    /\ mode = "codec"
    /\ cfg = NoOptions
    /\ input = EmptyObj
    /\ output = Idle
    /\ pc = "start"
    /\ HookIdle

\* The caller builds the mapping it will encode, one assignment at a time.
Grow ==
    /\ mode = "codec"
    /\ pc = "start"
    /\ NodesBelow(input) < MaxNodes
    /\ \E x \in Grown(input) : input' = x
    /\ UNCHANGED <<mode, cfg, output, pc, params, search, published, last>>

Encode ==
    /\ mode = "codec"
    /\ pc = "start"
    /\ output' = [query |-> objectToQueryString(input)]
    /\ pc' = "encoded"
    /\ UNCHANGED <<mode, cfg, input, params, search, published, last>>

Decode ==
    /\ mode = "codec"
    /\ pc = "encoded"
    /\ output' = [query |-> output.query, decoded |-> queryStringToObject(output.query)]
    /\ pc' = "done"
    /\ UNCHANGED <<mode, cfg, input, params, search, published, last>>

CodecNext == Grow \/ Encode \/ Decode

SpecCodec == CodecInit /\ [][CodecNext]_vars

DecodeInit ==
    /\ mode = "decode"
    /\ cfg = NoOptions
    /\ input \in {lead \o Join(ps, "&") :
                     lead \in {<<>>, <<"?">>}, ps \in SeqsUpTo(RawPairs, MaxPairs)}
    /\ output = Idle
    /\ pc = "start"
    /\ HookIdle

DecodeRaw ==
    /\ mode = "decode"
    /\ pc = "start"
    /\ output' = queryStringToObject(input)
    /\ pc' = "done"
    /\ UNCHANGED <<mode, cfg, input, params, search, published, last>>

DecodeNext == DecodeRaw

SpecDecode == DecodeInit /\ [][DecodeNext]_vars

-----------------------------------------------------------------------------
(* Claims about the codec *)

\* x with every number and boolean leaf replaced by its string form.
RECURSIVE Stringified(_)
Stringified(x) ==
    IF x.t \in {"num", "bool"} THEN MkStr(ToStr(x))
    ELSE IF IsContainer(x)
    THEN [x EXCEPT !.p = [i \in 1..Len(x.p) |-> <<x.p[i][1], Stringified(x.p[i][2])>>]]
    ELSE x

\* Structural equality: the same kind of value, the same scalar, or the same
\* keys holding structurally equal values, whatever the order of the keys.
RECURSIVE StructEq(_, _)
StructEq(x, y) ==
    /\ x.t = y.t
    /\ IF IsContainer(x)
       THEN Keys(x) = Keys(y) /\ \A k \in Keys(x) : StructEq(Get(x, k), Get(y, k))
       ELSE x = y

RoundTrips == ~output.decoded.threw /\ StructEq(output.decoded.val, Stringified(input))

PlainKey(k) == k # <<>> /\ \A i \in 1..Len(k) : ~IsBracket(k[i])

\* The values the amended round trip covers below the root: strings, numbers and
\* booleans; non-empty mappings whose keys are plain and do not read as numbers;
\* non-empty sequences without holes; all of them of such values only.
RECURSIVE Carried(_)
Carried(x) ==
    CASE x.t \in {"str", "num", "bool"} -> TRUE
      [] x.t = "obj" ->
            /\ x.p # <<>>
            /\ \A i \in 1..Len(x.p) :
                  /\ PlainKey(x.p[i][1])
                  /\ ~NumberIsNotNaN(x.p[i][1])
                  /\ Carried(x.p[i][2])
      [] x.t = "arr" ->
            /\ x.p # <<>>
            /\ \A i \in 1..Len(x.p) : x.p[i][1] = NatToStr(i - 1) /\ Carried(x.p[i][2])
      [] OTHER -> FALSE

\* The root mappings the amended round trip covers.
CarriedRoot(m) ==
    /\ m.t = "obj"
    /\ \A i \in 1..Len(m.p) : PlainKey(m.p[i][1]) /\ Carried(m.p[i][2])

IndicesUnder(query, key) ==
    LET parts == FilterNonEmpty(Split(query, "&"))
        SegmentsOf(part) == KeySegments(decodeURIComponent(Split(part, "=")[1]).val)
        under == SelectSeq(parts, LAMBDA part :
                     Len(SegmentsOf(part)) >= 2 /\ SegmentsOf(part)[1] = key)
    IN  [i \in 1..Len(under) |-> CleanKey(SegmentsOf(under[i])[2])]

\* A list without immediate repetitions.
RECURSIVE Squeezed(_)
Squeezed(l) ==
    IF Len(l) <= 1 THEN l
    ELSE IF l[1] = l[2] THEN Squeezed(Tail(l))
    ELSE <<l[1]>> \o Squeezed(Tail(l))

\* C10 as stated: the indices written for a sequence are 0, 1, 2, ... in the
\* order of the elements written, whatever elements were skipped.
C10_NoIndexGaps ==
    pc = "encoded" =>
        \A i \in 1..Len(input.p) :
            input.p[i][2].t = "arr" /\ PlainKey(input.p[i][1]) =>
                LET written == Squeezed(IndicesUnder(output.query, input.p[i][1]))
                IN  written = [j \in 1..Len(written) |-> NatToStr(j - 1)]

AllDigitsOrNot(kind, next) == (kind = "arr") <=> AllDigits(next)

\* C6 as stated: a container created at an intermediate segment is a sequence
\* exactly when the next segment is a non-negative integer.
C6_LookaheadByInteger ==
    (mode = "decode" /\ pc = "done" /\ ~output.threw) =>
        \A i \in 1..Len(output.created) :
            AllDigitsOrNot(output.created[i].kind, output.created[i].next)

-----------------------------------------------------------------------------
(* The pipeline's operations run on their own *)

\* The largest threshold a configuration gives.
MaxThreshold == 12

Obj1(k, x) == MkObj(<<<<Str(k), x>>>>)

ArrayOf2(x, y) == MkArr(<<<<Str("0"), x>>, <<Str("1"), y>>>>)

Obj2(k1, x1, k2, x2) == MkObj(<<<<Str(k1), x1>>, <<Str(k2), x2>>>>)

\* The defaultValues a configuration may give.
SomeDefaults == Obj2("a", MkStr(Str("d")), "n", MkNum(1))

\* The marker names a configuration may give: none (the default), or "q".
ParamNames == {<<>>, Str("q")}

Options(validator, defaultValues, compression, threshold, paramName, navigate, basePath) ==
    [validator |-> validator, defaultValues |-> defaultValues,
     compression |-> compression, threshold |-> threshold, paramName |-> paramName,
     navigate |-> navigate, basePath |-> basePath]

\* The configurations the read and validate operations are run with.
ReadConfigs ==
    {Options(v, d, FALSE, NotGiven, <<>>, FALSE, <<>>) :
         v \in ValidatorKinds, d \in {Undef, SomeDefaults}}
    \cup {Options(v, d, TRUE, NotGiven, name, FALSE, <<>>) :
              v \in ValidatorKinds, d \in {Undef, SomeDefaults}, name \in ParamNames}

\* Values of compressed payloads.
Payloads == {Obj1("a", MkStr(Str("y"))), Obj2("n", MkNum(2), "z", Null)}

\* name=value with the value as createCompressedUrl writes it.
MarkerPair(name, x) ==
    name \o <<"=">> \o encodeURIComponent(Compress(JSONstringify(x).s))

\* The pairs of the raw query strings given to parseQueryParams: plain pairs that
\* the schema accepts or not, a malformed escape, and the marker with a good
\* payload, a payload decompress throws on, one that is no JSON, a JSON scalar,
\* and no payload.
ReadPairs ==
    {Str("a=x"), Str("n=1"), Str("n=x"), Str("a[k]=x"), Str("a=%"), Str("u=1"),
     Str("qs=!"), Str("qs=x"), Str("qs=5"), Str("qs="), Str("q=!")}
    \cup {MarkerPair(name, x) : name \in {Str("qs"), Str("q")}, x \in Payloads}

\* The candidates given to validateDeserializedParams.
Candidates ==
    {Undef, EmptyObj, Obj1("a", MkStr(Str("x"))), Obj1("a", Undef), Obj1("a", MkNum(5)),
     Obj1("n", MkNum(2)), Obj1("n", MkStr(Str("2"))),
     Obj2("a", MkStr(Str("x")), "u", MkBool(TRUE)),
     Obj2("u", MkArr(<<>>), "n", MkNum(0))}

ReadInit ==
    /\ cfg \in ReadConfigs
    /\ \/ /\ mode = "parse"
          /\ input \in {lead \o Join(ps, "&") :
                           lead \in {<<>>, <<"?">>}, ps \in SeqsUpTo(ReadPairs, MaxPairs)}
       \/ /\ mode = "validate"
          /\ input \in Candidates
    /\ output = Idle
    /\ pc = "start"
    /\ HookIdle

Parse ==
    /\ mode = "parse"
    /\ pc = "start"
    /\ output' = parseQueryParams(cfg, input)
    /\ pc' = "done"
    /\ UNCHANGED <<mode, cfg, input, params, search, published, last>>

Validate ==
    /\ mode = "validate"
    /\ pc = "start"
    /\ output' = validateDeserializedParams(cfg, input)
    /\ pc' = "done"
    /\ UNCHANGED <<mode, cfg, input, params, search, published, last>>

ReadNext == Parse \/ Validate

SpecRead == ReadInit /\ [][ReadNext]_vars

\* The configurations createUrl is run with.
UrlConfigs ==
    {Options("accept", Undef, FALSE, NotGiven, <<>>, FALSE, base) :
         base \in {<<>>, Str("/p")}}
    \cup {Options("accept", Undef, TRUE, th, name, FALSE, base) :
              th \in {NotGiven} \cup 0..MaxThreshold, name \in ParamNames,
              base \in {<<>>, Str("/p")}}

\* The values given to createUrl.
UrlValues ==
    {EmptyObj, Obj1("a", MkStr(Str("x"))), Obj1("n", MkNum(12)), Obj1("a", Null),
     Obj1("qs", MkStr(Str("zx"))), Obj2("a", MkStr(Str("x y")), "n", MkNum(1)),
     Obj1("f", ArrayOf2(MkStr(Str("u")), Obj1("k", MkBool(FALSE))))}

UrlInit ==
    /\ mode = "url"
    /\ cfg \in UrlConfigs
    /\ input \in UrlValues
    /\ output = Idle
    /\ pc = "start"
    /\ HookIdle

BuildUrl ==
    /\ mode = "url"
    /\ pc = "start"
    /\ output' = createUrl(cfg, input)
    /\ pc' = "done"
    /\ UNCHANGED <<mode, cfg, input, params, search, published, last>>

UrlNext == BuildUrl

SpecUrl == UrlInit /\ [][UrlNext]_vars

-----------------------------------------------------------------------------
(* The useQueryParams hook in a component *)

\* The largest number of URLs the hook publishes in a run.
MaxPublished == 1

\* A threshold that some values of the hook's runs exceed and some do not.
SmallThreshold == 8

\* The configurations the hook is run with: history sinks with compression, a
\* navigate sink without.
HookConfigs ==
    {Options(v, d, FALSE, NotGiven, <<>>, TRUE, <<>>) :
         v \in ValidatorKinds, d \in {Undef, SomeDefaults}}
    \cup {Options(v, d, TRUE, SmallThreshold, <<>>, FALSE, <<>>) :
              v \in ValidatorKinds, d \in {Undef, SomeDefaults}}

\* location.search when the component mounts, and where the user may navigate.
Searches ==
    {<<>>, Str("?n=1"), Str("?n=x"), Str("?a=%"), Str("?qs=!"),
     <<"?">> \o MarkerPair(Str("qs"), Obj1("a", MkStr(Str("y"))))}

\* The newParams a component may give to setQueryParams.
NewParams ==
    {[kind |-> "object", arg |-> x] :
         x \in {Obj1("a", MkStr(Str("x"))), Obj1("n", MkStr(Str("2"))), Obj1("a", Undef)}}
    \cup {[kind |-> "function", arg |-> MkStr(Str("same"))],
          [kind |-> "other", arg |-> MkNum(7)]}

\* What the last operation was, for the claims: whether it was an update whose
\* validation failed, and then the params and the number of published URLs
\* before it; and the search string of the last read.
Last(op, rejected, prev, before, read) ==
    [op |-> op, rejected |-> rejected, prev |-> prev, before |-> before, read |-> read]

Init ==
    /\ mode = "hook"
    /\ cfg \in HookConfigs
    /\ input = Idle
    /\ output = Idle
    /\ pc = "init"
    /\ params = Idle
    /\ search \in Searches
    /\ published = <<>>
    /\ last = Last("none", FALSE, Idle, 0, <<>>)

\* setParams(queryCore.parseQueryParams(queryCore.getQueryParams())): an error
\* thrown by the read is not caught, and takes the component down.
ReadUrl(op, read) ==
    /\ last' = Last(op, FALSE, Idle, 0, search')
    /\ IF read.threw
       THEN pc' = "crashed" /\ UNCHANGED params
       ELSE pc' = "mounted" /\ params' = read.val
    /\ UNCHANGED <<mode, cfg, input, output, published>>

\* The first render and the effect after it: the useState initializer parses
\* location.search, and the effect's handleUrlChange() parses it again.
Mount ==
    /\ mode = "hook"
    /\ pc = "init"
    /\ search' = search
    /\ \E read \in {parseQueryParams(cfg, search)} : ReadUrl("mount", read)

\* The user goes back or forward to another URL, and handleUrlChange runs.
Popstate ==
    /\ mode = "hook"
    /\ pc = "mounted"
    /\ \E q \in Searches \cup {LocationSearch(published[i].call.url) :
                                   i \in 1..Len(published)} :
          /\ search' = q
          /\ \E read \in {parseQueryParams(cfg, q)} : ReadUrl("popstate", read)

\* setParams(updater) of setQueryParams: the updater's result becomes the
\* state, the browser takes the published URL, and an error thrown by the
\* updater takes the component down.
Write(op, rejected, update) ==
    /\ last' = IF rejected THEN Last(op, TRUE, params, Len(published), last.read)
               ELSE Last(op, FALSE, Idle, 0, last.read)
    /\ params' = update.params
    /\ published' = published \o update.calls
    /\ search' = IF update.calls = <<>> THEN search
                 ELSE LocationSearch(update.calls[1].call.url)
    /\ pc' = IF update.threw THEN "crashed" ELSE "mounted"
    /\ UNCHANGED <<mode, cfg, input, output>>

\* Whether validateDeserializedParams reports failure for the update newParams.
Rejected(options, prevParams, newParams) ==
    ~validateDeserializedParams(options, FinalParams(options, prevParams, newParams)).success

SetQueryParams ==
    /\ mode = "hook"
    /\ pc = "mounted"
    /\ \E newParams \in NewParams, replace \in BOOLEAN :
          \E update \in {setQueryParams(cfg, params, newParams, replace)} :
             /\ Len(published) + Len(update.calls) <= MaxPublished
             /\ Write("set", Rejected(cfg, params, newParams), update)

ResetQueryParams ==
    /\ mode = "hook"
    /\ pc = "mounted"
    /\ \E update \in {setQueryParams(cfg, params, ResetArgument(cfg), TRUE)} :
          /\ Len(published) + Len(update.calls) <= MaxPublished
          /\ Write("reset", Rejected(cfg, params, ResetArgument(cfg)), update)

\* The effect's cleanup: abortController.abort() removes the listener.
Unmount ==
    /\ mode = "hook"
    /\ pc = "mounted"
    /\ pc' = "unmounted"
    /\ UNCHANGED <<mode, cfg, input, output, params, search, published, last>>

Next == Mount \/ Popstate \/ SetQueryParams \/ ResetQueryParams \/ Unmount

Spec == Init /\ [][Next]_vars

-----------------------------------------------------------------------------
(* Claims about the read path *)

\* C1 (as the spec states it): parseQueryParams returns a value for every raw
\* query string, every validator outcome and every configuration; it never
\* throws.
C1_ParseNeverThrows == (mode = "parse" /\ pc = "done") => ~output.threw

\* The marker parameter is present in a raw query string, with or without its
\* leading "?".
MarkerIn(queryString, paramName) ==
    \E i \in 1..Len(URLSearchParams(queryString)) :
       URLSearchParams(queryString)[i][1] = paramName

MarkerValue(queryString, paramName) ==
    SelectSeq(URLSearchParams(queryString), LAMBDA pr : pr[1] = paramName)[1][2]

\* decompress throws on the text, or what it returns is no JSON.
DecompressionFails(text) ==
    Decompress(text).threw \/ JSONparse(Decompress(text).val).threw

\* C4: with compression configured and the marker in the query string, when
\* decompress throws or its result fails to parse, parseQueryParams returns the
\* defaults (an empty value without defaults), does not throw, and does not call
\* the validator.
C4_FailSoftDecompression ==
    (/\ mode = "parse"
     /\ pc = "done"
     /\ cfg.compression
     /\ MarkerIn(input, CompressionOptions(cfg).paramName)
     /\ output.decompressed # <<>>
     /\ DecompressionFails(output.decompressed[1]))
    => (/\ ~output.threw
        /\ output.val = DefaultsOrEmpty(cfg)
        /\ output.handed = <<>>)

\* A read whose payload decompressed but was no JSON, with defaults configured.
C4_Witness ==
    /\ mode = "parse"
    /\ pc = "done"
    /\ cfg.compression
    /\ cfg.defaultValues = SomeDefaults
    /\ output.decompressed = <<Str("x")>>
    /\ ~Decompress(Str("x")).threw
    /\ DecompressionFails(Str("x"))
    /\ output.val = SomeDefaults

\* Key by key, handed has the candidate's value where the candidate has the
\* key, the default's where only the defaults have it, and no other key.
FillsNotOverrides(candidate, defaults, handed) ==
    \A k \in Keys(candidate) \cup Keys(defaults) \cup Keys(handed) :
       IF HasKey(candidate, k)
       THEN HasKey(handed, k) /\ Get(handed, k) = Get(candidate, k)
       ELSE HasKey(defaults, k) /\ HasKey(handed, k) /\ Get(handed, k) = Get(defaults, k)

\* What a read parsed before the merge: the decoded query string, or the JSON
\* payload.
ParsedOf(queryString, read) ==
    IF read.decoded THEN queryStringToObject(queryString).val
    ELSE JSONparse(Decompress(read.decompressed[1]).val).val

\* C7: the value validateDeserializedParams and parseQueryParams hand to the
\* validator has, for each top-level key, the candidate's (or parsed) value when
\* the candidate has the key, and the default's value only when it lacks it.
C7_DefaultsFillNeverOverride ==
    /\ (mode = "validate" /\ pc = "done")
       => FillsNotOverrides(IF Truthy(input) THEN input ELSE EmptyObj,
                            DefaultsOrEmpty(cfg), output.handed)
    /\ (mode = "parse" /\ pc = "done" /\ output.handed # <<>>)
       => FillsNotOverrides(ParsedOf(input, output), DefaultsOrEmpty(cfg),
                            output.handed[1])

\* validate({a: "x"}) with the defaults {a: "d", n: 1} and an accepting
\* validator yields {a: "x", n: 1}.
C7_Witness ==
    /\ mode = "validate"
    /\ pc = "done"
    /\ cfg.validator = "accept"
    /\ cfg.defaultValues = SomeDefaults
    /\ input = Obj1("a", MkStr(Str("x")))
    /\ output.success
    /\ output.data = Obj2("a", MkStr(Str("x")), "n", MkNum(1))

\* C9 (as the spec states it): with compression configured and the marker in
\* the raw query string, with or without a leading "?", parseQueryParams takes
\* the compressed branch: it runs decompress on the marker's value and does not
\* decode the string with the QueryCodec.
C9_MarkerTakesCompressedBranch ==
    (/\ mode = "parse"
     /\ pc = "done"
     /\ cfg.compression
     /\ MarkerIn(input, CompressionOptions(cfg).paramName)
     /\ MarkerValue(input, CompressionOptions(cfg).paramName) # <<>>)
    => (/\ output.branch = "compressed"
        /\ ~output.decoded
        /\ output.decompressed
              = <<MarkerValue(input, CompressionOptions(cfg).paramName)>>)

-----------------------------------------------------------------------------
(* Claims about createUrl *)

\* The threshold the configuration gives, 500 when it gives none.
GivenThreshold(options) ==
    IF options.threshold = NotGiven THEN DefaultThreshold ELSE options.threshold

CompressedForm(options, p) ==
    BasePath(options) \o <<"?">> \o CompressionOptions(options).paramName \o <<"=">>
        \o encodeURIComponent(Compress(JSONstringify(p).s))

PlainForm(options, p) == UrlOf(options, objectToQueryString(p))

\* C5 (as the spec states it): createUrl emits the compressed form exactly when
\* compression is configured and the serialized value is longer than the
\* configured threshold, whatever non-negative threshold is configured, and the
\* plain form otherwise.
C5_CompressionThreshold ==
    (mode = "url" /\ pc = "done")
    => output = Ret(IF cfg.compression
                       /\ Len(JSONstringify(input).s) > GivenThreshold(cfg)
                    THEN CompressedForm(cfg, input)
                    ELSE PlainForm(cfg, input))

-----------------------------------------------------------------------------
(* Claims about the hook *)

\* C3: an update whose validation fails leaves params as they were and calls
\* updateBrowserUrl not at all; and every URL the hook published is the URL of a
\* value the validator accepts in the "deserialized" context.
C3_StrictWriteRejection ==
    /\ (last.op \in {"set", "reset"} /\ last.rejected)
       => (params = last.prev /\ Len(published) = last.before)
    /\ \A i \in 1..Len(published) :
          /\ Validator(cfg.validator, published[i].from, "deserialized").success
          /\ createUrl(cfg, published[i].from) = Ret(published[i].call.url)

\* A rejected setQueryParams after a URL was published.
C3_Witness ==
    /\ pc = "mounted"
    /\ last.op = "set"
    /\ last.rejected
    /\ cfg.validator = "schema"
    /\ Len(published) = 1
    /\ params = last.prev

\* x is a value the validator accepts as it is.
Accepted(options, x) ==
    \E c \in Contexts : Validator(options.validator, x, c) = Valid(x)

ReadFellBack(options, read) ==
    \/ read.handed = <<>>
    \/ ~Validator(options.validator, read.handed[1], "serialized").success
    \/ ~Truthy(Validator(options.validator, read.handed[1], "serialized").data)

-----------------------------------------------------------------------------
(* Claims about resetQueryParams *)

\* The mapping x has exactly the keys of y, with y's values.
SameMapping(x, y) ==
    /\ IsContainer(x)
    /\ Keys(x) = Keys(y)
    /\ \A k \in Keys(y) : Get(x, k) = Get(y, k)

\* The hook has just run resetQueryParams() to its end, with the validator that
\* accepts every candidate unchanged.
ResetDone ==
    /\ pc = "mounted"
    /\ last.op = "reset"
    /\ ~last.rejected
    /\ cfg.validator = "accept"

\* C11 (as the spec states it): after resetQueryParams() with a validator that
\* accepts the candidate unchanged, params equals defaultValues exactly (the
\* empty mapping when none are configured), no key of the previous state that
\* defaultValues lacks survives, and the URL published for the reset is
\* createUrl(defaultValues), published in replace mode.
C11_ResetRestoresDefaults ==
    ResetDone
    => /\ SameMapping(params, DefaultsOrEmpty(cfg))
       /\ published # <<>>
       /\ published[Len(published)].call.replace
       /\ createUrl(cfg, DefaultsOrEmpty(cfg)) = Ret(published[Len(published)].call.url)

=============================================================================
